---- MODULE Spec2Model ----
(***************************************************************************)
(* Royalties distribution contract (src/main.rs).                          *)
(*                                                                         *)
(* The contract keeps six records in persistent storage (DataKey) and      *)
(* moves funds through a token client.  Every entry point is one host      *)
(* invocation: it either runs to its end and commits its writes and its    *)
(* token transfers, or it panics (unwrap on a missing record, failed       *)
(* require_auth, panic_with_error!, failed transfer) and commits nothing.  *)
(***************************************************************************)
EXTENDS Integers, Sequences, FiniteSets, TLC

(* ---------------------------------------------------------------------- *)
(* Bounds of the model                                                     *)
(* ---------------------------------------------------------------------- *)
MaxArtists == 2        \* longest Artists vector explored
MaxListeners == 1      \* longest Listeners vector explored
MaxAmount == 1         \* largest |amount| passed to contribute
InitBalance == 2       \* tokens account A holds at the start (B and C hold none)

(* ---------------------------------------------------------------------- *)
(* Values                                                                  *)
(* ---------------------------------------------------------------------- *)
\* user account addresses (callers, admin candidates, artists, listeners)
Address == {"A", "B"}
\* env.current_contract_address(): the custodian account
Self == "C"
Account == Address \cup {Self}
\* token contract addresses that init may be given
TokenAddr == {"T1", "T2"}
Amount == (0 - MaxAmount)..MaxAmount

\* enum RoyaltiesState
Initialized == 1
Active == 2
Finished == 3

\* Option<T> as returned by storage.get: None is <<>>, Some(v) is <<v>>
Absent == <<>>
Some(v) == <<v>>
IsSome(r) == Len(r) = 1
Unwrap(r) == r[1]
UnwrapOr(r, d) == IF IsSome(r) THEN r[1] ELSE d

VARIABLES
    Admin,            \* DataKey::Admin            Option<Address>
    Token,            \* DataKey::Token            Option<Address>
    RoyaltiesState,   \* DataKey::RoyaltiesState   Option<RoyaltiesState>
    Artists,          \* DataKey::Artists          Option<Vec<Address>>
    Listeners,        \* DataKey::Listeners        Option<Vec<Address>>
    RoyaltiesPool,    \* DataKey::RoyaltiesPool    Option<i128>
    balance,          \* the token's ledger: Account -> balance
    call,             \* the invocation made by the last step
    result,           \* its outcome: "ok" or the failure
    transfers,        \* the token transfers it committed, in order
    stopped           \* a stop_distribution call has succeeded

store == <<Admin, Token, RoyaltiesState, Artists, Listeners, RoyaltiesPool>>
vars == <<Admin, Token, RoyaltiesState, Artists, Listeners, RoyaltiesPool,
          balance, call, result, transfers, stopped>>

\* contract errors raised with panic_with_error! (enum Error)
ContractError == {"AlreadyInitialized", "AlreadyActive", "NotActive"}
\* failure reported by the token's transfer
TokenError == {"InsufficientFunds"}
\* explicit, reported errors
ReportedError == ContractError \cup TokenError
\* failures that are not a reported error of the contract:
\* a failed require_auth, Option::unwrap on None, division by zero
Crash == {"AuthFailed", "UnwrapNone", "DivideByZero"}

NoCall == [op |-> "none", caller |-> "A", addr |-> "A", tok |-> "T1", amount |-> 0]
Call(op, caller, addr, tok, amount) ==
    [op |-> op, caller |-> caller, addr |-> addr, tok |-> tok, amount |-> amount]

(* ---------------------------------------------------------------------- *)
(* Host and token                                                          *)
(* ---------------------------------------------------------------------- *)
\* Address::require_auth: the invocation must be authorized by the identity
RequireAuth(caller, id) == caller = id

\* token transfer(from, to, amount): possible iff no balance goes negative
CanTransfer(b, from, to, amt) ==
    \/ from = to /\ b[from] >= amt /\ b[from] >= 0 - amt
    \/ from # to /\ b[from] - amt >= 0 /\ b[to] + amt >= 0
DoTransfer(b, from, to, amt) ==
    IF from = to THEN b
    ELSE [b EXCEPT ![from] = b[from] - amt, ![to] = b[to] + amt]

\* a failed invocation: nothing is committed
Fail(c, err) ==
    /\ call' = c
    /\ result' = err
    /\ transfers' = <<>>
    /\ UNCHANGED <<store, balance, stopped>>

\* i128 division truncates toward zero
TruncDiv(a, b) == IF a >= 0 THEN a \div b ELSE 0 - ((0 - a) \div b)

Init ==
    /\ Admin = Absent
    /\ Token = Absent
    /\ RoyaltiesState = Absent
    /\ Artists = Absent
    /\ Listeners = Absent
    /\ RoyaltiesPool = Absent
    /\ balance = [a \in Account |-> IF a = "A" THEN InitBalance ELSE 0]
    /\ call = NoCall
    /\ result = "ok"
    /\ transfers = <<>>
    /\ stopped = FALSE

(* ---------------------------------------------------------------------- *)
(* Entry points                                                            *)
(* ---------------------------------------------------------------------- *)
AlreadyInitializedNever == FALSE
AlreadyInitializedCheck == IsSome(RoyaltiesState)

\* init that also stores empty Artists and Listeners vectors
init_with_registries(caller, admin, token) ==
    LET c == Call("init", caller, admin, token, 0) IN
    IF ~RequireAuth(caller, admin) THEN Fail(c, "AuthFailed")
    ELSE IF AlreadyInitializedCheck THEN Fail(c, "AlreadyInitialized")
    ELSE /\ Admin' = Some(admin)
         /\ Token' = Some(token)
         /\ RoyaltiesState' = Some(Initialized)
         /\ Artists' = Some(<<>>)
         /\ Listeners' = Some(<<>>)
         /\ call' = c
         /\ result' = "ok"
         /\ transfers' = <<>>
         /\ UNCHANGED <<RoyaltiesPool, balance, stopped>>

init(caller, admin, token) ==
    LET c == Call("init", caller, admin, token, 0) IN
    IF ~RequireAuth(caller, admin) THEN Fail(c, "AuthFailed")
    ELSE IF AlreadyInitializedCheck THEN Fail(c, "AlreadyInitialized")
    ELSE /\ Admin' = Some(admin)
         /\ Token' = Some(token)
         /\ RoyaltiesState' = Some(Initialized)
         /\ call' = c
         /\ result' = "ok"
         /\ transfers' = <<>>
         /\ UNCHANGED <<Artists, Listeners, RoyaltiesPool, balance, stopped>>

\* the guard of the privileged entry points, once Admin has been read
AdminGuardMissing(caller, admin) == TRUE
AdminGuard(caller, admin) == RequireAuth(caller, admin)

\* add_artist that stores a fresh vector holding only the new entry
add_artist_overwrite(caller, artist) ==
    LET c == Call("add_artist", caller, artist, "T1", 0) IN
    IF ~IsSome(Admin) THEN Fail(c, "UnwrapNone")
    ELSE IF ~AdminGuard(caller, Unwrap(Admin)) THEN Fail(c, "AuthFailed")
    ELSE /\ Len(UnwrapOr(Artists, <<>>)) < MaxArtists
         /\ Artists' = Some(<<artist>>)
         /\ call' = c
         /\ result' = "ok"
         /\ transfers' = <<>>
         /\ UNCHANGED <<Admin, Token, RoyaltiesState, Listeners, RoyaltiesPool,
                        balance, stopped>>

add_artist(caller, artist) ==
    LET c == Call("add_artist", caller, artist, "T1", 0) IN
    IF ~IsSome(Admin) THEN Fail(c, "UnwrapNone")
    ELSE IF ~AdminGuard(caller, Unwrap(Admin)) THEN Fail(c, "AuthFailed")
    ELSE /\ Len(UnwrapOr(Artists, <<>>)) < MaxArtists
         /\ Artists' = Some(Append(UnwrapOr(Artists, <<>>), artist))
         /\ call' = c
         /\ result' = "ok"
         /\ transfers' = <<>>
         /\ UNCHANGED <<Admin, Token, RoyaltiesState, Listeners, RoyaltiesPool,
                        balance, stopped>>

add_listener(caller, listener) ==
    LET c == Call("add_listener", caller, listener, "T1", 0) IN
    IF ~IsSome(Admin) THEN Fail(c, "UnwrapNone")
    ELSE IF ~AdminGuard(caller, Unwrap(Admin)) THEN Fail(c, "AuthFailed")
    ELSE /\ Len(UnwrapOr(Listeners, <<>>)) < MaxListeners
         /\ Listeners' = Some(Append(UnwrapOr(Listeners, <<>>), listener))
         /\ call' = c
         /\ result' = "ok"
         /\ transfers' = <<>>
         /\ UNCHANGED <<Admin, Token, RoyaltiesState, Artists, RoyaltiesPool,
                        balance, stopped>>

\* start_distribution that starts only from Initialized
start_distribution_once(caller) ==
    LET c == Call("start_distribution", caller, "A", "T1", 0) IN
    IF ~IsSome(Admin) THEN Fail(c, "UnwrapNone")
    ELSE IF ~AdminGuard(caller, Unwrap(Admin)) THEN Fail(c, "AuthFailed")
    ELSE IF ~IsSome(RoyaltiesState) THEN Fail(c, "UnwrapNone")
    ELSE IF Unwrap(RoyaltiesState) # Initialized THEN Fail(c, "AlreadyActive")
    ELSE /\ RoyaltiesState' = Some(Active)
         /\ call' = c
         /\ result' = "ok"
         /\ transfers' = <<>>
         /\ UNCHANGED <<Admin, Token, Artists, Listeners, RoyaltiesPool,
                        balance, stopped>>

start_distribution(caller) ==
    LET c == Call("start_distribution", caller, "A", "T1", 0) IN
    IF ~IsSome(Admin) THEN Fail(c, "UnwrapNone")
    ELSE IF ~AdminGuard(caller, Unwrap(Admin)) THEN Fail(c, "AuthFailed")
    ELSE IF ~IsSome(RoyaltiesState) THEN Fail(c, "UnwrapNone")
    ELSE IF Unwrap(RoyaltiesState) = Active THEN Fail(c, "AlreadyActive")
    ELSE /\ RoyaltiesState' = Some(Active)
         /\ call' = c
         /\ result' = "ok"
         /\ transfers' = <<>>
         /\ UNCHANGED <<Admin, Token, Artists, Listeners, RoyaltiesPool,
                        balance, stopped>>

stop_distribution(caller) ==
    LET c == Call("stop_distribution", caller, "A", "T1", 0) IN
    IF ~IsSome(Admin) THEN Fail(c, "UnwrapNone")
    ELSE IF ~AdminGuard(caller, Unwrap(Admin)) THEN Fail(c, "AuthFailed")
    ELSE IF ~IsSome(RoyaltiesState) THEN Fail(c, "UnwrapNone")
    ELSE IF Unwrap(RoyaltiesState) # Active THEN Fail(c, "NotActive")
    ELSE /\ RoyaltiesState' = Some(Finished)
         /\ stopped' = TRUE
         /\ call' = c
         /\ result' = "ok"
         /\ transfers' = <<>>
         /\ UNCHANGED <<Admin, Token, Artists, Listeners, RoyaltiesPool, balance>>

\* the state test of stop_distribution and distribute_royalties
NotActiveOnlyInitialized(s) == s = Initialized
NotActiveCheck(s) == s # Active

\* the loop with a refused transfer skipped instead of aborting the call
RECURSIVE PayArtistsKeepGoing(_, _, _, _)
PayArtistsKeepGoing(b, artists, share, log) ==
    IF artists = <<>> THEN [ok |-> TRUE, bal |-> b, log |-> log]
    ELSE IF ~CanTransfer(b, Self, Head(artists), share)
         THEN PayArtistsKeepGoing(b, Tail(artists), share, log)
    ELSE PayArtistsKeepGoing(DoTransfer(b, Self, Head(artists), share),
                             Tail(artists), share,
                             Append(log, <<Self, Head(artists), share>>))

\* the per-artist transfer loop: pays share to each entry in vector order,
\* stops at the first transfer the token refuses
RECURSIVE PayArtists(_, _, _, _)
PayArtists(b, artists, share, log) ==
    IF artists = <<>> THEN [ok |-> TRUE, bal |-> b, log |-> log]
    ELSE IF ~CanTransfer(b, Self, Head(artists), share)
         THEN [ok |-> FALSE, bal |-> b, log |-> log]
    ELSE PayArtists(DoTransfer(b, Self, Head(artists), share), Tail(artists), share,
                    Append(log, <<Self, Head(artists), share>>))

distribute_royalties(caller) ==
    LET c == Call("distribute_royalties", caller, "A", "T1", 0) IN
    IF ~IsSome(RoyaltiesState) THEN Fail(c, "UnwrapNone")
    ELSE IF NotActiveCheck(Unwrap(RoyaltiesState)) THEN Fail(c, "NotActive")
    ELSE IF ~IsSome(Token) THEN Fail(c, "UnwrapNone")
    ELSE IF ~IsSome(Artists) THEN Fail(c, "UnwrapNone")
    ELSE IF ~IsSome(Listeners) THEN Fail(c, "UnwrapNone")
    ELSE LET royalties_pool == UnwrapOr(RoyaltiesPool, 0)
             num_artists == Len(Unwrap(Artists))
         IN  IF num_artists = 0 THEN Fail(c, "DivideByZero")
             ELSE LET royalties_per_artist == TruncDiv(royalties_pool, num_artists)
                      paid == PayArtists(balance, Unwrap(Artists),
                                         royalties_per_artist, <<>>)
                  IN  IF ~paid.ok THEN Fail(c, "InsufficientFunds")
                      ELSE /\ balance' = paid.bal
                           /\ RoyaltiesPool' = Some(0)
                           /\ call' = c
                           /\ result' = "ok"
                           /\ transfers' = paid.log
                           /\ UNCHANGED <<Admin, Token, RoyaltiesState, Artists,
                                          Listeners, stopped>>

\* contribute that leaves the pool as it was
PoolAfterContributeUnchanged(royalties_pool, amount) == royalties_pool
\* the pool written by contribute
PoolAfterContributeOverwrite(royalties_pool, amount) == amount
PoolAfterContribute(royalties_pool, amount) == royalties_pool + amount

\* contribute that accepts funds only while distribution is Active
contribute_gated(caller, amount) ==
    LET c == Call("contribute", caller, "A", "T1", amount) IN
    IF ~IsSome(Token) THEN Fail(c, "UnwrapNone")
    ELSE IF UnwrapOr(RoyaltiesState, Initialized) # Active THEN Fail(c, "NotActive")
    ELSE IF ~CanTransfer(balance, caller, Self, amount) THEN Fail(c, "InsufficientFunds")
    ELSE /\ balance' = DoTransfer(balance, caller, Self, amount)
         /\ RoyaltiesPool' = Some(PoolAfterContribute(UnwrapOr(RoyaltiesPool, 0), amount))
         /\ call' = c
         /\ result' = "ok"
         /\ transfers' = << <<caller, Self, amount>> >>
         /\ UNCHANGED <<Admin, Token, RoyaltiesState, Artists, Listeners, stopped>>

contribute(caller, amount) ==
    LET c == Call("contribute", caller, "A", "T1", amount) IN
    IF ~IsSome(Token) THEN Fail(c, "UnwrapNone")
    ELSE IF ~CanTransfer(balance, caller, Self, amount) THEN Fail(c, "InsufficientFunds")
    ELSE /\ balance' = DoTransfer(balance, caller, Self, amount)
         /\ RoyaltiesPool' = Some(PoolAfterContribute(UnwrapOr(RoyaltiesPool, 0), amount))
         /\ call' = c
         /\ result' = "ok"
         /\ transfers' = << <<caller, Self, amount>> >>
         /\ UNCHANGED <<Admin, Token, RoyaltiesState, Artists, Listeners, stopped>>

Next ==
    \/ \E caller \in Address, admin \in Address, token \in TokenAddr :
          init(caller, admin, token)
    \/ \E caller \in Address, artist \in Address : add_artist(caller, artist)
    \/ \E caller \in Address, listener \in Address : add_listener(caller, listener)
    \/ \E caller \in Address : start_distribution(caller)
    \/ \E caller \in Address : stop_distribution(caller)
    \/ \E caller \in Address : distribute_royalties(caller)
    \/ \E caller \in Address, amount \in Amount : contribute(caller, amount)

Spec == Init /\ [][Next]_vars

(* ---------------------------------------------------------------------- *)
(* Shape of the reachable states                                           *)
(* ---------------------------------------------------------------------- *)
TypeOK ==
    /\ Admin \in {Absent} \cup {Some(a) : a \in Address}
    /\ Token \in {Absent} \cup {Some(t) : t \in TokenAddr}
    /\ RoyaltiesState \in {Absent, Some(Initialized), Some(Active), Some(Finished)}
    /\ Len(Artists) <= 1
    /\ Len(Listeners) <= 1
    /\ Len(RoyaltiesPool) <= 1
    /\ \A a \in Account : balance[a] >= 0
    /\ result \in {"ok"} \cup ReportedError \cup Crash

(* ---------------------------------------------------------------------- *)
(* Helpers of the properties                                               *)
(* ---------------------------------------------------------------------- *)
Pool == UnwrapOr(RoyaltiesPool, 0)
FloorDiv(a, b) == a \div b
AdminOps == {"add_artist", "add_listener", "start_distribution", "stop_distribution"}
\* Initialized -> Active -> Finished, a missing record before all of them
Rank(s) == UnwrapOr(s, 0)
\* number of entries of vector v equal to a
Count(v, a) == Cardinality({i \in 1..Len(v) : v[i] = a})

(* ---------------------------------------------------------------------- *)
(* C1: once stop_distribution has succeeded, no later distribute_royalties *)
(* call succeeds.                                                          *)
(* ---------------------------------------------------------------------- *)
C1_NoDistributionAfterFinished ==
    [][stopped => ~(call'.op = "distribute_royalties" /\ result' = "ok")]_vars

(* ---------------------------------------------------------------------- *)
(* C2: no step moves RoyaltiesState backwards in the order                 *)
(* Initialized, Active, Finished.                                          *)
(* ---------------------------------------------------------------------- *)
C2_StateMonotonic ==
    [][Rank(RoyaltiesState') >= Rank(RoyaltiesState)]_vars

(* ---------------------------------------------------------------------- *)
(* C3: a successful distribute_royalties with pool P and N >= 1 artists    *)
(* transfers floor(P/N) from the custodian to each entry in vector order,  *)
(* an identity entered k times gains k * floor(P/N), the transfers sum to  *)
(* at most P, and the pool is 0 afterwards.                                *)
(* ---------------------------------------------------------------------- *)
C3_EqualShares ==
    [][(call'.op = "distribute_royalties" /\ result' = "ok") =>
         LET P == Pool
             artists == UnwrapOr(Artists, <<>>)
             N == Len(artists)
         IN  /\ N >= 1
             /\ transfers' = [i \in 1..N |-> <<Self, artists[i], FloorDiv(P, N)>>]
             /\ \A a \in Address :
                   balance'[a] = balance[a] + Count(artists, a) * FloorDiv(P, N)
             /\ balance'[Self] = balance[Self] - N * FloorDiv(P, N)
             /\ N * FloorDiv(P, N) <= P
             /\ RoyaltiesPool' = Some(0)]_vars

(* ---------------------------------------------------------------------- *)
(* C4: the outcome of distribute_royalties does not depend on the          *)
(* Listeners record: in state Active, with at least one artist and a       *)
(* non-negative pool, the call succeeds, pays floor(P/N) to each artist    *)
(* and leaves the pool 0, whether or not add_listener was ever called.     *)
(* ---------------------------------------------------------------------- *)
C4_ListenersIrrelevant ==
    [][(/\ call'.op = "distribute_royalties"
        /\ RoyaltiesState = Some(Active)
        /\ IsSome(Artists)
        /\ Pool >= 0) =>
         LET artists == Unwrap(Artists)
             N == Len(artists)
         IN  /\ result' = "ok"
             /\ transfers' = [i \in 1..N |-> <<Self, artists[i], FloorDiv(Pool, N)>>]
             /\ RoyaltiesPool' = Some(0)]_vars

(* ---------------------------------------------------------------------- *)
(* C5: a call of add_artist, add_listener, start_distribution or           *)
(* stop_distribution whose caller is not the stored Admin fails and leaves *)
(* every stored record and every balance unchanged.                        *)
(* ---------------------------------------------------------------------- *)
C5_AdminOnly ==
    [][(call'.op \in AdminOps /\ Admin # Some(call'.caller)) =>
         /\ result' # "ok"
         /\ UNCHANGED <<store, balance>>]_vars

C5_Witness ==
    /\ call.op \in AdminOps
    /\ IsSome(Admin)
    /\ Admin # Some(call.caller)
    /\ result = "AuthFailed"
    /\ RoyaltiesState = Some(Active)
    /\ IsSome(Artists)

(* ---------------------------------------------------------------------- *)
(* C6 as stated: once initialized, every init call fails with              *)
(* AlreadyInitialized and Admin and Token keep their values.               *)
(* ---------------------------------------------------------------------- *)
C6_EveryLaterInitAlreadyInitialized ==
    [][IsSome(RoyaltiesState) =>
         /\ UNCHANGED <<Admin, Token>>
         /\ call'.op = "init" => result' = "AlreadyInitialized"]_vars

(* ---------------------------------------------------------------------- *)
(* C6 amended: once initialized, every init call fails, with               *)
(* AlreadyInitialized when its admin argument authorized the call and with *)
(* the authorization failure otherwise; the records stay initialized and   *)
(* Admin and Token keep the values of the first call in every later step.  *)
(* ---------------------------------------------------------------------- *)
C6_InitOnce ==
    [][IsSome(RoyaltiesState) =>
         /\ UNCHANGED <<Admin, Token>>
         /\ IsSome(Admin) /\ IsSome(Token) /\ IsSome(RoyaltiesState')
         /\ call'.op = "init" =>
              /\ result' = IF call'.caller = call'.addr
                           THEN "AlreadyInitialized" ELSE "AuthFailed"
              /\ UNCHANGED <<store, balance>>]_vars

C6_Witness ==
    /\ call.op = "init"
    /\ result = "AlreadyInitialized"
    /\ Admin # Some(call.addr)
    /\ Token # Some(call.tok)

(* ---------------------------------------------------------------------- *)
(* C7: a successful contribute(amount) raises the pool by amount, raises   *)
(* the custodian's balance by amount, lowers the caller's balance by       *)
(* amount, and changes no other balance and no other record.               *)
(* ---------------------------------------------------------------------- *)
C7_ContributeExact ==
    [][(call'.op = "contribute" /\ result' = "ok") =>
         /\ RoyaltiesPool' = Some(Pool + call'.amount)
         /\ balance'[Self] = balance[Self] + call'.amount
         /\ balance'[call'.caller] = balance[call'.caller] - call'.amount
         /\ \A a \in Address \ {call'.caller} : balance'[a] = balance[a]
         /\ UNCHANGED <<Admin, Token, RoyaltiesState, Artists, Listeners>>]_vars

C7_Witness ==
    /\ call.op = "contribute"
    /\ result = "ok"
    /\ call.amount > 0
    /\ Pool > call.amount
    /\ balance[Self] >= Pool

(* ---------------------------------------------------------------------- *)
(* C8: the royalties pool is never negative.                               *)
(* ---------------------------------------------------------------------- *)
C8_PoolNonNegative == Pool >= 0

(* ---------------------------------------------------------------------- *)
(* C9: distribute_royalties in state Active with no artist registered      *)
(* fails with a reported error, not a crash, and leaves the pool and the   *)
(* balances unchanged.                                                     *)
(* ---------------------------------------------------------------------- *)
C9_EmptyRegistryReported ==
    [][(/\ call'.op = "distribute_royalties"
        /\ RoyaltiesState = Some(Active)
        /\ UnwrapOr(Artists, <<>>) = <<>>) =>
         /\ result' \in ReportedError
         /\ UNCHANGED <<RoyaltiesPool, balance>>]_vars

(* ---------------------------------------------------------------------- *)
(* C10: distribute_royalties in state Initialized or Finished fails with   *)
(* NotActive, makes no transfer and leaves the pool, both registries, the  *)
(* state and the balances unchanged.                                       *)
(* ---------------------------------------------------------------------- *)
C10_NotActive ==
    [][(/\ call'.op = "distribute_royalties"
        /\ RoyaltiesState \in {Some(Initialized), Some(Finished)}) =>
         /\ result' = "NotActive"
         /\ transfers' = <<>>
         /\ UNCHANGED <<RoyaltiesPool, Artists, Listeners, RoyaltiesState,
                        balance>>]_vars

C10_Witness ==
    /\ call.op = "distribute_royalties"
    /\ result = "NotActive"
    /\ RoyaltiesState = Some(Finished)
    /\ IsSome(Artists)
    /\ IsSome(Listeners)
    /\ Pool > 0

(* ---------------------------------------------------------------------- *)
(* Helpers of the transfer properties                                      *)
(* ---------------------------------------------------------------------- *)
\* the share distribute_royalties computes in the current state
Share == TruncDiv(Pool, Len(UnwrapOr(Artists, <<>>)))
\* the balances once the first k entries of the registry have been paid
BalanceAfterPaying(k) ==
    LET artists == UnwrapOr(Artists, <<>>) IN
    [a \in Account |->
        IF a = Self THEN balance[a] - k * Share
        ELSE balance[a] + Count(SubSeq(artists, 1, k), a) * Share]
\* the k-th transfer of the loop is the first one the token refuses
FirstRefused(k) ==
    LET artists == UnwrapOr(Artists, <<>>) IN
    /\ \A j \in 1..(k - 1) :
          CanTransfer(BalanceAfterPaying(j - 1), Self, artists[j], Share)
    /\ ~CanTransfer(BalanceAfterPaying(k - 1), Self, artists[k], Share)
\* distribute_royalties gets as far as its transfer loop
ReachesLoop ==
    /\ RoyaltiesState = Some(Active)
    /\ IsSome(Token) /\ IsSome(Artists) /\ IsSome(Listeners)
    /\ Len(Unwrap(Artists)) >= 1

(* ---------------------------------------------------------------------- *)
(* C11: when the token refuses one of the per-artist transfers of          *)
(* distribute_royalties, the call fails, no balance (artist or custodian)  *)
(* has changed and the pool keeps its value.                               *)
(* ---------------------------------------------------------------------- *)
C11_DistributeAllOrNothing ==
    [][(/\ call'.op = "distribute_royalties"
        /\ ReachesLoop
        /\ \E k \in 1..Len(Unwrap(Artists)) : FirstRefused(k)) =>
         /\ result' = "InsufficientFunds"
         /\ transfers' = <<>>
         /\ UNCHANGED <<store, balance>>]_vars

\* the refused transfer is the second one: the first would have been made
C11_Witness ==
    /\ call.op = "distribute_royalties"
    /\ result = "InsufficientFunds"
    /\ ReachesLoop
    /\ FirstRefused(2)
    /\ Pool # 0

(* ---------------------------------------------------------------------- *)
(* C12: contribute is atomic with its transfer: when the token refuses the *)
(* transfer from the caller the call fails with the pool and every balance *)
(* unchanged, and in every contribute step the pool and the custodian's    *)
(* balance move by the same amount.                                        *)
(* ---------------------------------------------------------------------- *)
C12_ContributeAtomic ==
    [][call'.op = "contribute" =>
         /\ (IsSome(Token) /\ ~CanTransfer(balance, call'.caller, Self, call'.amount)) =>
               /\ result' = "InsufficientFunds"
               /\ UNCHANGED <<store, balance>>
         /\ result' # "ok" => UNCHANGED <<store, balance>>
         /\ UnwrapOr(RoyaltiesPool', 0) - Pool = balance'[Self] - balance[Self]
         /\ balance'[Self] - balance[Self] = balance[call'.caller] - balance'[call'.caller]]_vars

C12_Witness ==
    /\ call.op = "contribute"
    /\ result = "InsufficientFunds"
    /\ call.amount > 0
    /\ balance[call.caller] < call.amount
    /\ Pool > 0

(* ---------------------------------------------------------------------- *)
(* C13: every contribute(amount) with amount <= 0 fails and leaves the     *)
(* pool and every balance unchanged.                                       *)
(* ---------------------------------------------------------------------- *)
C13_PositiveAmountRequired ==
    [][(call'.op = "contribute" /\ call'.amount <= 0) =>
         /\ result' # "ok"
         /\ UNCHANGED <<RoyaltiesPool, balance>>]_vars

(* ---------------------------------------------------------------------- *)
(* C14: once init has run, a contribute(amount) by any caller whose        *)
(* balance covers the amount succeeds and adds amount to the pool, in      *)
(* each of the states Initialized, Active and Finished.                    *)
(* ---------------------------------------------------------------------- *)
C14_ContributeInAnyState ==
    [][(/\ call'.op = "contribute"
        /\ RoyaltiesState \in {Some(Initialized), Some(Active), Some(Finished)}
        /\ call'.amount >= 0
        /\ balance[call'.caller] >= call'.amount) =>
         /\ result' = "ok"
         /\ RoyaltiesPool' = Some(Pool + call'.amount)
         /\ UNCHANGED RoyaltiesState]_vars

\* a non-admin contributes before any start_distribution: the pool is the amount
C14_Witness ==
    /\ call.op = "contribute"
    /\ result = "ok"
    /\ call.amount > 0
    /\ RoyaltiesState = Some(Initialized)
    /\ ~stopped
    /\ Admin # Some(call.caller)
    /\ Pool = call.amount

(* ---------------------------------------------------------------------- *)
(* C15: a successful add_artist (add_listener) makes the Artists           *)
(* (Listeners) vector the old one with the argument appended, duplicates   *)
(* kept, and changes no other record and no balance; in every step each    *)
(* registry keeps its old entries, in order, as a prefix of the new one.   *)
(* ---------------------------------------------------------------------- *)
IsPrefix(old, new) == Len(old) <= Len(new) /\ SubSeq(new, 1, Len(old)) = old

C16_NotInitializedReported ==
    [][(~IsSome(RoyaltiesState) /\ call'.op # "init") =>
         /\ result' = "NotInitialized"
         /\ UNCHANGED <<store, balance>>]_vars

(* ---------------------------------------------------------------------- *)
(* C17: for calls authorized by the stored Admin: start_distribution in    *)
(* Active fails with AlreadyActive and leaves the state; in Initialized or *)
(* Finished it succeeds and sets Active; stop_distribution in Active       *)
(* succeeds and sets Finished; in Initialized or Finished it fails with    *)
(* NotActive and leaves the state.  Neither changes the pool, the          *)
(* registries, Admin or Token.                                             *)
(* ---------------------------------------------------------------------- *)
C17_LifecycleTransitions ==
    [][(/\ call'.op \in {"start_distribution", "stop_distribution"}
        /\ Admin = Some(call'.caller)
        /\ IsSome(RoyaltiesState)) =>
         /\ UNCHANGED <<Admin, Token, Artists, Listeners, RoyaltiesPool, balance>>
         /\ call'.op = "start_distribution" =>
              IF RoyaltiesState = Some(Active)
              THEN result' = "AlreadyActive" /\ UNCHANGED RoyaltiesState
              ELSE result' = "ok" /\ RoyaltiesState' = Some(Active)
         /\ call'.op = "stop_distribution" =>
              IF RoyaltiesState = Some(Active)
              THEN result' = "ok" /\ RoyaltiesState' = Some(Finished)
              ELSE result' = "NotActive" /\ UNCHANGED RoyaltiesState]_vars

\* a restart: start_distribution succeeds after a stop_distribution has
C17_Witness ==
    /\ call.op = "start_distribution"
    /\ result = "ok"
    /\ stopped
    /\ RoyaltiesState = Some(Active)

(* ---------------------------------------------------------------------- *)
(* C18: distribute_royalties in state Active with pool 0 and at least one  *)
(* artist succeeds, transfers 0 to each artist and leaves every balance    *)
(* and the pool (0) unchanged.                                             *)
(* ---------------------------------------------------------------------- *)
C18_EmptyPoolIdempotent ==
    [][(/\ call'.op = "distribute_royalties"
        /\ RoyaltiesState = Some(Active)
        /\ IsSome(Artists)
        /\ Pool = 0) =>
         LET artists == Unwrap(Artists) IN
         /\ result' = "ok"
         /\ transfers' = [i \in 1..Len(artists) |-> <<Self, artists[i], 0>>]
         /\ UNCHANGED balance
         /\ UnwrapOr(RoyaltiesPool', 0) = 0]_vars

(* ---------------------------------------------------------------------- *)
(* C19: the difference custodian balance - pool is 0 at the start and      *)
(* never decreases: contribute leaves it unchanged and a successful        *)
(* distribute_royalties with pool P and N artists raises it by P mod N.    *)
(* ---------------------------------------------------------------------- *)
Surplus == balance[Self] - Pool
SurplusNext == balance'[Self] - UnwrapOr(RoyaltiesPool', 0)

C19_SurplusNeverDecreases ==
    /\ Surplus = 0
    /\ [][/\ SurplusNext >= Surplus
          /\ call'.op = "contribute" => SurplusNext = Surplus
          /\ (call'.op = "distribute_royalties" /\ result' = "ok") =>
                SurplusNext = Surplus + (Pool % Len(Unwrap(Artists)))]_vars

(* ---------------------------------------------------------------------- *)
(* C20: the Artists record and the Listeners record are each absent or a   *)
(* vector of at least one entry, so distribute_royalties never divides by  *)
(* zero; the Artists vector starts without entries and gains exactly one   *)
(* entry in each successful add_artist and in no other step, so the        *)
(* divisor of a distribute_royalties that passes the registry reads is the *)
(* number of successful add_artist calls made so far.                      *)
(* ---------------------------------------------------------------------- *)
NumArtists == Len(UnwrapOr(Artists, <<>>))
NumArtistsNext == Len(UnwrapOr(Artists', <<>>))

C20_RegistryNeverEmpty ==
    /\ Artists = Absent
    /\ [](/\ IsSome(Artists) => Len(Unwrap(Artists)) >= 1
          /\ IsSome(Listeners) => Len(Unwrap(Listeners)) >= 1
          /\ result # "DivideByZero")
    /\ [][/\ NumArtistsNext =
               NumArtists + (IF call'.op = "add_artist" /\ result' = "ok" THEN 1 ELSE 0)
          /\ (call'.op = "distribute_royalties" /\ ReachesLoop) =>
                /\ result' \in {"ok", "InsufficientFunds"}
                /\ result' = "ok" =>
                      /\ Len(transfers') = NumArtists
                      /\ \A i \in 1..NumArtists :
                            transfers'[i][3] = TruncDiv(Pool, NumArtists)]_vars

C20_Witness ==
    /\ call.op = "distribute_royalties"
    /\ result = "ok"
    /\ NumArtists = MaxArtists
    /\ Len(transfers) = NumArtists

====
